---- MODULE Spec2Model ----
(***************************************************************************)
(* Genetic-algorithm graph colouring (main.go): LoadGraph, SelectParents,  *)
(* Crossover, Mutate, CalculateFitness and Solve as one state machine.     *)
(* Slices are sequences (index k of the source is index k+1 here); node    *)
(* indices, colours and loop counters keep the source's 0-based values.    *)
(* Every rand.* call is a nondeterministic choice over its range.          *)
(***************************************************************************)
EXTENDS Integers, Sequences, FiniteSets, TLC

VARIABLES
    entry,            \* the function the run calls: LoadGraph, SelectParents, ...
    pc,               \* position in the code
    lines,            \* LoadGraph: strings.Split(file, "\n"), each line split on " "
    lineNo,           \* LoadGraph: index of the line the range loop is at
    ret,              \* LoadGraph: the returned (graph, err)
    g,                \* the Graph (LoadGraph's local g, the solver's Graph)
    numColors,        \* solver.NumColors
    popSize,          \* Solve: popSize
    numIterations,    \* Solve: numIterations
    population,       \* Solve / SelectParents: population
    iteration,        \* Solve: iteration
    childIndex,       \* Solve: childIndex
    scoredPopulation, \* Solve: scoredPopulation
    bestScores,       \* Solve: the bestScore of every generation run so far
    solution,         \* Solve: the returned GraphColoringSolution, <<>> before
    parentSlot,       \* SelectParents: i
    attempt,          \* SelectParents: j
    parentIndex,      \* SelectParents / Crossover: parentIndex
    usedParents,      \* SelectParents: usedParents
    parents,          \* SelectParents: parents; Crossover: its argument
    drawn,            \* SelectParents: per slot, the indices drawn for it
    res,              \* Crossover: res
    currentIndex,     \* Crossover: currentIndex
    child,            \* Solve: child / mutatedChild (one slice, mutated in place)
    score             \* Solve: score; CalculateFitness: its result

vars == << entry, pc, lines, lineNo, ret, g, numColors, popSize, numIterations,
           population, iteration, childIndex, scoredPopulation, bestScores,
           solution, parentSlot, attempt, parentIndex, usedParents, parents,
           drawn, res, currentIndex, child, score >>

loadVars   == << lines, lineNo, ret >>
solveVars  == << popSize, numIterations, iteration, childIndex,
                 scoredPopulation, bestScores, solution >>
selectVars == << parentSlot, attempt, usedParents, drawn >>

----------------------------------------------------------------------------
(* Bounds of the model *)

MaxLines == 3
MaxNodes == 3
MaxColors == 2
MaxPop == 2
MaxIter == 2
MaxGenomes == 16
MaxParents == 3
MaxLen == 3

(* Program constants *)

ParentsCount == 2
MaxAttempts == 10

----------------------------------------------------------------------------
(* Helpers *)

Min(a, b) == IF a < b THEN a ELSE b

RECURSIVE Pow(_, _)
Pow(b, e) == IF e = 0 THEN 1 ELSE b * Pow(b, e - 1)

\* rand.Intn(n): any value of [0, n)
Intn(n) == 0..(n - 1)

\* All chromosomes of the given length with every gene in [0, colors)
Chromosomes(length, colors) == [1..length -> Intn(colors)]

\* Graph{} : both slices nil
ZeroGraph == [AdjecencyList |-> << >>, Colors |-> << >>]

\* make([][]int, n), make([]int, n)
MakeGraph(n) == [AdjecencyList |-> [k \in 1..n |-> << >>],
                 Colors        |-> [k \in 1..n |-> 0]]

NodeCount(graph) == Len(graph.AdjecencyList)

----------------------------------------------------------------------------
(* LoadGraph *)

\* strconv.ParseInt(tok, 10, 32) on the tokens of the model's alphabet;
\* a token outside the table is a syntax error.
Numerals ==
    ("0" :> 0) @@ ("1" :> 1) @@ ("2" :> 2) @@ ("3" :> 3) @@ ("4" :> 4) @@ ("-1" :> -1)

ParseOk(tok) == tok \in DOMAIN Numerals
ParseInt(tok) == Numerals[tok]

\* line[0] of a line whose first token is tok
FirstByte(tok) ==
    CASE tok = "c"              -> "c"
      [] tok \in {"p"}          -> "p"
      [] tok \in {"e", "edge"}  -> "e"
      [] OTHER                  -> "?"

\* len(line) == 0 : splitting the empty string gives one empty token
IsEmptyLine(line) == line = << "" >>

Continue(graph) == [kind |-> "continue", g |-> graph]
Failure(graph)  == [kind |-> "error", g |-> graph]
Panic(graph)    == [kind |-> "panic", g |-> graph]

\* case 'p'
ProblemLine(graph, tokens) ==
    IF Len(tokens) < 3 THEN Panic(graph)                \* tokens[2]: index out of range
    ELSE IF ~ParseOk(tokens[3]) THEN Failure(graph)     \* return nil, err
    ELSE IF ParseInt(tokens[3]) < 0 THEN Panic(graph)   \* make: len out of range
    ELSE Continue(MakeGraph(ParseInt(tokens[3])))

\* The append of case 'e'
StoreEdge(graph, first, second) ==
    [graph EXCEPT !.AdjecencyList[first] = Append(@, second - 1)]

\* case 'e'
EdgeLine(graph, tokens) ==
    IF Len(tokens) < 2 THEN Panic(graph)                \* tokens[1]
    ELSE IF ~ParseOk(tokens[2]) THEN Failure(graph)
    ELSE IF Len(tokens) < 3 THEN Panic(graph)           \* tokens[2]
    ELSE IF ~ParseOk(tokens[3]) THEN Failure(graph)
    ELSE IF ParseInt(tokens[2]) - 1 \notin Intn(NodeCount(graph))
         THEN Panic(graph)                              \* AdjecencyList[first-1]
    ELSE Continue(StoreEdge(graph, ParseInt(tokens[2]), ParseInt(tokens[3])))

\* The body of the range loop for one line
LineEffect(graph, line) ==
    IF IsEmptyLine(line) THEN Continue(graph)
    ELSE CASE FirstByte(line[1]) = "c" -> Continue(graph)
           [] FirstByte(line[1]) = "p" -> ProblemLine(graph, line)
           [] FirstByte(line[1]) = "e" -> EdgeLine(graph, line)
           [] OTHER                    -> Continue(graph)

\* The lines the input files are made of
LineAlphabet ==
    { << "" >>,
      << "c", "x" >>,
      << "p", "edge", "2", "1" >>,
      << "p", "edge", "3", "2" >>,
      << "p", "edge" >>,
      << "p", "edge", "x", "1" >>,
      << "p", "edge", "-1", "0" >>,
      << "e", "1", "2" >>,
      << "e", "2", "3" >>,
      << "e", "1" >>,
      << "e", "x", "2" >>,
      << "e", "1", "x" >>,
      << "e", "0", "1" >>,
      << "e", "1", "4" >>,
      << "edge", "2", "1" >>,
      << "x", "1" >> }

Texts == UNION { [1..n -> LineAlphabet] : n \in 1..MaxLines }

NoReturn == [graph |-> << >>, err |-> "none"]

\* os.ReadFile and the split into lines; err != nil returns (nil, err)
ReadFile ==
    /\ pc = "read"
    /\ \E ok \in BOOLEAN :
          IF ok
          THEN /\ pc' = "lines"
               /\ lineNo' = 1
               /\ g' = ZeroGraph
               /\ ret' = ret
          ELSE /\ pc' = "done"
               /\ ret' = [graph |-> << >>, err |-> "io"]
               /\ UNCHANGED << lineNo, g >>
    /\ UNCHANGED << entry, lines, numColors, solveVars, population, selectVars,
                    parentIndex, parents, res, currentIndex, child, score >>

\* One iteration of the range loop over the lines
LoadLine ==
    /\ pc = "lines"
    /\ lineNo <= Len(lines)
    /\ LET eff == LineEffect(g, lines[lineNo]) IN
          CASE eff.kind = "continue" ->
                  /\ g' = eff.g
                  /\ lineNo' = lineNo + 1
                  /\ UNCHANGED << pc, ret >>
            [] eff.kind = "error" ->
                  /\ pc' = "done"
                  /\ ret' = [graph |-> << >>, err |-> "parse"]
                  /\ UNCHANGED << g, lineNo >>
            [] OTHER ->
                  /\ pc' = "panic"
                  /\ UNCHANGED << g, lineNo, ret >>
    /\ UNCHANGED << entry, lines, numColors, solveVars, population, selectVars,
                    parentIndex, parents, res, currentIndex, child, score >>

\* return &g, nil
LoadReturn ==
    /\ pc = "lines"
    /\ lineNo > Len(lines)
    /\ pc' = "done"
    /\ ret' = [graph |-> << g >>, err |-> "nil"]
    /\ UNCHANGED << entry, lines, lineNo, g, numColors, solveVars, population,
                    selectVars, parentIndex, parents, res, currentIndex, child,
                    score >>

----------------------------------------------------------------------------
(* SelectParents *)

\* Exists without the lookup: every draw is taken as fresh
ExistsNever(used, idx) == FALSE

\* _, exists := usedParents[parentIndex]
Exists(used, idx) == idx \in used

NoDraws == [k \in 1..ParentsCount |-> << >>]

\* One pass of the inner loop: a draw, and on a fresh index the break and
\* the append that follows it
Draw ==
    /\ pc = "select"
    /\ parentSlot < ParentsCount
    /\ attempt < MaxAttempts
    /\ \E idx \in Intn(Len(population)) :
          /\ drawn' = [drawn EXCEPT ![parentSlot + 1] = Append(@, idx)]
          /\ IF ~Exists(usedParents, idx)
             THEN /\ usedParents' = usedParents \cup {idx}
                  /\ parents' = Append(parents, population[idx + 1])
                  /\ parentSlot' = parentSlot + 1
                  /\ attempt' = 0
                  /\ parentIndex' = 0
             ELSE /\ attempt' = attempt + 1
                  /\ parentIndex' = idx
                  /\ UNCHANGED << usedParents, parents, parentSlot >>
    /\ UNCHANGED << entry, pc, loadVars, g, numColors, solveVars, population,
                    res, currentIndex, child, score >>

\* The inner loop ran out (j == 10): the last index drawn is appended
SlotExhausted ==
    /\ pc = "select"
    /\ parentSlot < ParentsCount
    /\ attempt = MaxAttempts
    /\ parents' = Append(parents, population[parentIndex + 1])
    /\ parentSlot' = parentSlot + 1
    /\ attempt' = 0
    /\ parentIndex' = 0
    /\ UNCHANGED << entry, pc, loadVars, g, numColors, solveVars, population,
                    usedParents, drawn, res, currentIndex, child, score >>

\* return parents; in Solve the call of Crossover follows, and the locals
\* of SelectParents are gone
SelectReturn ==
    /\ pc = "select"
    /\ parentSlot = ParentsCount
    /\ IF entry = "SelectParents"
       THEN /\ pc' = "done"
            /\ UNCHANGED selectVars
       ELSE /\ pc' = "crossover"
            /\ parentSlot' = 0
            /\ attempt' = 0
            /\ usedParents' = {}
            /\ drawn' = NoDraws
    /\ res' = << >>
    /\ currentIndex' = 0
    /\ UNCHANGED << entry, loadVars, g, numColors, solveVars, population,
                    parentIndex, parents, child, score >>

----------------------------------------------------------------------------
(* Crossover *)

\* partLength := chromosomeLength / partsCount
PartLength(ps) == Len(ps[1]) \div Len(ps)

\* One pass of the loop: a block of one randomly drawn parent is appended
CrossoverBlock ==
    /\ pc = "crossover"
    /\ currentIndex < Len(parents[1])
    /\ \E p \in Intn(Len(parents)) :
          LET nextIndex == Min(currentIndex + PartLength(parents), Len(parents[1]))
          IN  /\ parentIndex' = p
              /\ res' = res \o SubSeq(parents[p + 1], currentIndex + 1, nextIndex)
              /\ currentIndex' = nextIndex
    /\ UNCHANGED << entry, pc, loadVars, g, numColors, solveVars, population,
                    selectVars, parents, child, score >>

\* return res; in Solve the call of Mutate follows, the locals of Crossover
\* are gone and parents is not read again
CrossoverReturn ==
    /\ pc = "crossover"
    /\ currentIndex >= Len(parents[1])
    /\ child' = res
    /\ IF entry = "Crossover"
       THEN /\ pc' = "done"
            /\ UNCHANGED << parentIndex, parents, res, currentIndex >>
       ELSE /\ pc' = "mutate"
            /\ parentIndex' = 0
            /\ parents' = << >>
            /\ res' = << >>
            /\ currentIndex' = 0
    /\ UNCHANGED << entry, loadVars, g, numColors, solveVars, population,
                    selectVars, score >>

----------------------------------------------------------------------------
(* Mutate *)

\* The values gene k can have after the loop: rand.Float32() < 1/len(child)
\* can fail only when len(child) > 1; a mutated gene is rand.Intn(NumColors)
MutatedGene(chr, k, colors) ==
    IF Len(chr) = 1 THEN Intn(colors) ELSE {chr[k]} \cup Intn(colors)

\* Mutations with the draw off by one: rand.Intn(NumColors + 1)
MutationsOffByOne(chr, colors) ==
    { m \in [1..Len(chr) -> Intn(colors + 1)] :
         \A k \in 1..Len(chr) : m[k] \in {chr[k]} \cup Intn(colors + 1) }

\* The chromosomes the loop of Mutate can leave in child
Mutations(chr, colors) ==
    { m \in [1..Len(chr) -> UNION { MutatedGene(chr, k, colors) : k \in 1..Len(chr) }] :
         \A k \in 1..Len(chr) : m[k] \in MutatedGene(chr, k, colors) }

Mutate ==
    /\ pc = "mutate"
    /\ child' \in Mutations(child, numColors)
    /\ pc' = "fitness"
    /\ UNCHANGED << entry, loadVars, g, numColors, solveVars, population,
                    selectVars, parentIndex, parents, res, currentIndex, score >>

----------------------------------------------------------------------------
(* CalculateFitness *)

\* The places (i, k) of the adjacency list: entry k of node i's list
Entries(graph) ==
    UNION { { << n, k >> : k \in 1..Len(graph.AdjecencyList[n]) } :
            n \in 1..NodeCount(graph) }

\* score after the two loops: the entries j of node i with chromosome[i] == chromosome[j]
Matches(graph, chromosome) ==
    Cardinality({ e \in Entries(graph) :
        chromosome[e[1]] = chromosome[graph.AdjecencyList[e[1]][e[2]] + 1] })

\* return score / 2
Halve(n) == n \div 2

CalculateFitness(graph, chromosome) == Halve(Matches(graph, chromosome))

\* score := solver.CalculateFitness(mutatedChild)
Fitness ==
    /\ pc = "fitness"
    /\ score' = CalculateFitness(g, child)
    /\ pc' = IF entry = "CalculateFitness" THEN "done" ELSE "append"
    /\ UNCHANGED << entry, loadVars, g, numColors, solveVars, population,
                    selectVars, parentIndex, parents, res, currentIndex, child >>

----------------------------------------------------------------------------
(* Solve *)

\* RandomPopulation(size): every gene is rand.Intn(NumColors)
RandomPopulation(size, graph, colors) ==
    [1..size -> Chromosomes(NodeCount(graph), colors)]

\* population := solver.RandomPopulation(popSize)
StartSolve ==
    /\ pc = "solve"
    /\ population' \in RandomPopulation(popSize, g, numColors)
    /\ iteration' = 0
    /\ pc' = "loop"
    /\ UNCHANGED << entry, loadVars, g, numColors, popSize, numIterations,
                    childIndex, scoredPopulation, bestScores, solution,
                    selectVars, parentIndex, parents, res, currentIndex, child,
                    score >>

\* for iteration < numIterations : a generation starts, or the loop ends
IterationHeader ==
    /\ pc = "loop"
    /\ IF iteration < numIterations
       THEN /\ scoredPopulation' = << >>
            /\ childIndex' = 0
            /\ pc' = "children"
       ELSE /\ pc' = "return"
            /\ UNCHANGED << scoredPopulation, childIndex >>
    /\ UNCHANGED << entry, loadVars, g, numColors, popSize, numIterations,
                    population, iteration, bestScores, solution, selectVars,
                    parentIndex, parents, res, currentIndex, child, score >>

\* for childIndex < childrenPopSize : SelectParents is called, or the loop ends
ChildHeader ==
    /\ pc = "children"
    /\ IF childIndex < 2 * popSize
       THEN /\ pc' = "select"
            /\ parentSlot' = 0
            /\ attempt' = 0
            /\ parentIndex' = 0
            /\ usedParents' = {}
            /\ parents' = << >>
            /\ drawn' = NoDraws
       ELSE /\ pc' = "sort"
            /\ UNCHANGED << selectVars, parentIndex, parents >>
    /\ UNCHANGED << entry, loadVars, g, numColors, solveVars, population, res,
                    currentIndex, child, score >>

\* scoredPopulation = append(scoredPopulation, {mutatedChild, score}); the
\* body of the child loop ends, and child and score with it
AppendScored ==
    /\ pc = "append"
    /\ scoredPopulation' =
          Append(scoredPopulation, [chromosome |-> child, score |-> score])
    /\ childIndex' = childIndex + 1
    /\ child' = << >>
    /\ score' = 0
    /\ pc' = "children"
    /\ UNCHANGED << entry, loadVars, g, numColors, popSize, numIterations,
                    population, iteration, bestScores, solution, selectVars,
                    parentIndex, parents, res, currentIndex >>

\* less(i, j) of the sort.Slice call
Less(a, b) == a.score < b.score

\* Sorted without the sort: the offspring stay in the order they were made
Unsorted(s) == { s }

\* sort.Slice is not stable: any reordering that no pair of Less contradicts
Sorted(s) ==
    { [k \in 1..Len(s) |-> s[p[k]]] :
        p \in { q \in Permutations(1..Len(s)) :
                  \A a, b \in 1..Len(s) : a < b => ~Less(s[q[b]], s[q[a]]) } }

\* for i < popSize : population[i] = scoredPopulation[i].chromosome
Survivors(sorted, size) == [k \in 1..size |-> sorted[k].chromosome]

\* From the sort to the end of the loop body, where scoredPopulation ends:
\* the break on bestScore == 0, else iteration++. The log line of every
\* 100th iteration changes no state.
EndGeneration ==
    /\ pc = "sort"
    /\ \E sorted \in Sorted(scoredPopulation) :
          /\ scoredPopulation' = << >>
          /\ population' = Survivors(sorted, popSize)
          /\ bestScores' = Append(bestScores, sorted[1].score)
          /\ IF sorted[1].score = 0
             THEN /\ pc' = "return"
                  /\ iteration' = iteration
             ELSE /\ pc' = "loop"
                  /\ iteration' = iteration + 1
    /\ UNCHANGED << entry, loadVars, g, numColors, popSize, numIterations,
                    childIndex, solution, selectVars, parentIndex, parents,
                    res, currentIndex, child, score >>

\* return GraphColoringSolution{population[0], CalculateFitness(population[0])}
SolveReturn ==
    /\ pc = "return"
    /\ solution' = << [Coloring |-> population[1],
                       Score    |-> CalculateFitness(g, population[1])] >>
    /\ pc' = "done"
    /\ UNCHANGED << entry, loadVars, g, numColors, popSize, numIterations,
                    population, iteration, childIndex, scoredPopulation,
                    bestScores, selectVars, parentIndex, parents, res,
                    currentIndex, child, score >>

----------------------------------------------------------------------------
(* Inputs *)

GraphOf(adj) == [AdjecencyList |-> adj, Colors |-> [k \in 1..Len(adj) |-> 0]]

\* A graph of n nodes and no edge line
NoEdges(n) == MakeGraph(n)

\* e 1 2, e 1 3, e 2 3 : each edge stored once, from its first endpoint
Triangle == GraphOf(<< << 1, 2 >>, << 2 >>, << >> >>)

\* The triangle with every edge listed in both directions
TriangleBoth == GraphOf(<< << 1, 2 >>, << 0, 2 >>, << 0, 1 >> >>)

\* e 1 2 on two nodes, once and in both directions
OneEdge == GraphOf(<< << 1 >>, << >> >>)
OneEdgeBoth == GraphOf(<< << 1 >>, << 0 >> >>)

SolveGraphs ==
    { NoEdges(n) : n \in 0..MaxNodes }
        \cup { Triangle, TriangleBoth, OneEdge, OneEdgeBoth }

RECURSIVE Ascending(_)
Ascending(S) ==
    IF S = {} THEN << >>
    ELSE LET m == CHOOSE x \in S : \A y \in S : x <= y
         IN  << m >> \o Ascending(S \ {m})

\* Every graph of n nodes whose file lists each edge once: the edge {a, b}
\* is absent, stored at a (e a b) or stored at b (e b a)
LoaderGraphs(n) ==
    LET pairs == { e \in Intn(n) \X Intn(n) : e[1] < e[2] }
    IN  { GraphOf([k \in 1..n |->
              Ascending({ e[2] : e \in { x \in pairs : x[1] = k - 1 /\ o[x] = "fwd" } }
                  \cup  { e[1] : e \in { x \in pairs : x[2] = k - 1 /\ o[x] = "bwd" } })]) :
          o \in [pairs -> {"none", "fwd", "bwd"}] }

IdleLoad ==
    /\ lines = << >>
    /\ lineNo = 0
    /\ ret = NoReturn

IdleSolve ==
    /\ popSize = 0
    /\ numIterations = 0
    /\ iteration = 0
    /\ childIndex = 0
    /\ scoredPopulation = << >>
    /\ bestScores = << >>
    /\ solution = << >>

IdleSelect ==
    /\ parentSlot = 0
    /\ attempt = 0
    /\ parentIndex = 0
    /\ usedParents = {}
    /\ drawn = NoDraws

IdleCrossover ==
    /\ res = << >>
    /\ currentIndex = 0

----------------------------------------------------------------------------
(* LoadGraph(filename) on every text of at most MaxLines lines *)

LoadInit ==
    /\ entry = "LoadGraph"
    /\ pc = "read"
    /\ lines \in Texts
    /\ lineNo = 0
    /\ ret = NoReturn
    /\ g = ZeroGraph
    /\ numColors = 0
    /\ population = << >>
    /\ parents = << >>
    /\ child = << >>
    /\ score = 0
    /\ IdleSolve /\ IdleSelect /\ IdleCrossover

LoadNext == ReadFile \/ LoadLine \/ LoadReturn

LoadSpec == LoadInit /\ [][LoadNext]_vars

(* SelectParents(population) on every population of 1..MaxPop chromosomes *)

SelectInit ==
    /\ entry = "SelectParents"
    /\ pc = "select"
    /\ g = ZeroGraph
    /\ numColors = MaxColors
    /\ population \in UNION { [1..s -> Chromosomes(2, MaxColors)] : s \in 1..MaxPop }
    /\ parents = << >>
    /\ child = << >>
    /\ score = 0
    /\ IdleLoad /\ IdleSolve /\ IdleSelect /\ IdleCrossover

SelectNext == Draw \/ SlotExhausted \/ SelectReturn

SelectSpec == SelectInit /\ [][SelectNext]_vars

(* Crossover(parents) on 1..MaxParents parents of a common length 0..MaxLen *)

CrossInit ==
    /\ entry = "Crossover"
    /\ pc = "crossover"
    /\ g = ZeroGraph
    /\ numColors = MaxColors
    /\ population = << >>
    /\ parents \in UNION { [1..P -> Chromosomes(L, MaxColors)] :
                             P \in 1..MaxParents, L \in 0..MaxLen }
    /\ child = << >>
    /\ score = 0
    /\ IdleLoad /\ IdleSolve /\ IdleSelect /\ IdleCrossover

CrossNext == CrossoverBlock \/ CrossoverReturn

\* The call runs on one thread that always takes its next step
CrossSpec == CrossInit /\ [][CrossNext]_vars /\ WF_vars(CrossNext)

(* CalculateFitness(chromosome) on every graph a file of at most MaxNodes   *)
(* nodes gives and every chromosome                                         *)

FitInit ==
    /\ entry = "CalculateFitness"
    /\ pc = "fitness"
    /\ \E n \in 0..MaxNodes :
          /\ g \in LoaderGraphs(n)
          /\ numColors \in 1..MaxColors
          /\ child \in Chromosomes(n, numColors)
    /\ population = << >>
    /\ parents = << >>
    /\ score = 0
    /\ IdleLoad /\ IdleSolve /\ IdleSelect /\ IdleCrossover

FitNext == Fitness

FitSpec == FitInit /\ [][FitNext]_vars

(* Solve(numIterations, popSize) *)

SolveInit ==
    /\ entry = "Solve"
    /\ pc = "solve"
    /\ g \in SolveGraphs
    /\ numColors \in 1..MaxColors
    /\ popSize \in 1..MaxPop
    /\ numIterations \in 0..MaxIter
    /\ Pow(numColors, NodeCount(g) * popSize) <= MaxGenomes
    /\ population = << >>
    /\ iteration = 0
    /\ childIndex = 0
    /\ scoredPopulation = << >>
    /\ bestScores = << >>
    /\ solution = << >>
    /\ parents = << >>
    /\ child = << >>
    /\ score = 0
    /\ IdleLoad /\ IdleSelect /\ IdleCrossover

SolveNext ==
    \/ StartSolve \/ IterationHeader \/ ChildHeader
    \/ Draw \/ SlotExhausted \/ SelectReturn
    \/ CrossoverBlock \/ CrossoverReturn
    \/ Mutate \/ Fitness \/ AppendScored
    \/ EndGeneration \/ SolveReturn

SolveSpec == SolveInit /\ [][SolveNext]_vars

\* Solve runs on one thread that always takes its next step
SolveFairSpec == SolveSpec /\ WF_vars(SolveNext)

----------------------------------------------------------------------------
(* Properties *)

Last(s) == s[Len(s)]

\* The edges {a, b} of the graph (as sets of endpoints) whose endpoints have
\* the same colour
MonochromeEdges(graph, chromosome) ==
    { {e[1] - 1, graph.AdjecencyList[e[1]][e[2]]} : e \in
        { x \in Entries(graph) :
            chromosome[x[1]] = chromosome[graph.AdjecencyList[x[1]][x[2]] + 1] } }

\* C1: on a graph that stores each edge once, CalculateFitness returns the
\* number of edges whose endpoints share a colour, and so returns 0 only
\* for a proper colouring.
C1_FitnessCountsConflictEdges ==
    (entry = "CalculateFitness" /\ pc = "done") =>
        /\ score = Cardinality(MonochromeEdges(g, child))
        /\ (score = 0 => MonochromeEdges(g, child) = {})

\* C2: on the triangle with two colours no chromosome has fitness 0, so a
\* finished Solve with numIterations >= 1 has run all numIterations
\* generations and returns Score > 0.
C2_TriangleTwoColorsNeverProper ==
    (entry = "Solve" /\ g = Triangle /\ numColors = 2 /\ numIterations >= 1) =>
        /\ \A k \in 1..Len(bestScores) : bestScores[k] > 0
        /\ (pc = "done" =>
               /\ Len(bestScores) = numIterations
               /\ solution[1].Score > 0)

WellFormed(chromosome) ==
    /\ Len(chromosome) = NodeCount(g)
    /\ \A k \in 1..Len(chromosome) : chromosome[k] \in 0..(numColors - 1)

\* C3: in every state of Solve every chromosome that exists (population
\* members, selected parents, the offspring Crossover returned, the offspring
\* after Mutate, scored offspring, the returned Coloring) has nodeCount
\* genes, each in [0, numColors).
C3_ChromosomesWellFormed ==
    /\ \A k \in 1..Len(population) : WellFormed(population[k])
    /\ \A k \in 1..Len(parents) : WellFormed(parents[k])
    /\ pc \in {"mutate", "fitness", "append"} => WellFormed(child)
    /\ \A k \in 1..Len(scoredPopulation) : WellFormed(scoredPopulation[k].chromosome)
    /\ \A k \in 1..Len(solution) : WellFormed(solution[k].Coloring)

C3_Witness ==
    /\ pc = "done"
    /\ NodeCount(g) = 3
    /\ Len(bestScores) = 2
    /\ solution[1].Coloring[1] # solution[1].Coloring[2]

\* C4: for every P >= 1 parents of a common length L >= 0 Crossover
\* terminates and returns a chromosome of length L.
C4_CrossoverTerminates ==
    <>(pc = "done" /\ Len(child) = Len(parents[1]))

\* C5: on a graph without edges Solve with numIterations >= 1 terminates
\* after generation 0 alone and returns Score 0.
C5_EdgelessSolveStopsAtGenerationZero ==
    (pc = "solve" /\ Entries(g) = {} /\ numIterations >= 1)
        ~> (pc = "done" /\ bestScores = << 0 >> /\ solution[1].Score = 0)

\* The number of generations C6 says a finished Solve has run
ClaimedGenerations ==
    IF \E k \in 1..Len(bestScores) : bestScores[k] = 0
    THEN CHOOSE k \in 1..Len(bestScores) :
            /\ bestScores[k] = 0
            /\ \A m \in 1..(k - 1) : bestScores[m] # 0
    ELSE numIterations

\* C6: Solve always terminates, and when it has, the generations run are
\* numIterations if no generation had bestScore 0, else up to and including
\* the first one that had; in that case the returned Score is 0.
C6_SolveTerminates ==
    <>(/\ pc = "done"
       /\ Len(bestScores) = ClaimedGenerations
       /\ (Len(bestScores) < numIterations => solution[1].Score = 0))

\* The safe part of C6, which holds: generations run in order, one starts
\* only while iteration < numIterations and no earlier bestScore was 0, and
\* a finished Solve has run the generations C6 names.
GenerationsInOrder ==
    /\ Len(bestScores) <= numIterations
    /\ \A k \in 1..(Len(bestScores) - 1) : bestScores[k] # 0
    /\ pc \in {"children", "select", "crossover", "mutate", "fitness", "append", "sort"} =>
          (iteration = Len(bestScores) /\ iteration < numIterations)
    /\ pc = "done" =>
          /\ Len(bestScores) = ClaimedGenerations
          /\ (Len(bestScores) < numIterations => solution[1].Score = 0)

\* Solve does terminate on every graph that does not have exactly one node
TerminatesUnlessOneNode == (NodeCount(g) # 1) => C6_SolveTerminates

\* C7: SelectParents never fails, draws at most 10 times per slot and
\* returns exactly 2 members of the population; both come from the same
\* index only if all 10 draws of the second slot gave the first slot's index.
C7_SelectParentsContract ==
    /\ pc # "panic"
    /\ attempt <= 10
    /\ \A k \in 1..ParentsCount : Len(drawn[k]) <= 10
    /\ (entry = "SelectParents" /\ pc = "done") =>
          /\ Len(parents) = 2
          /\ \A k \in 1..2 :
                /\ Len(drawn[k]) >= 1
                /\ Last(drawn[k]) \in 0..(Len(population) - 1)
                /\ parents[k] = population[Last(drawn[k]) + 1]
          /\ (Last(drawn[1]) = Last(drawn[2]) =>
                /\ Len(drawn[2]) = 10
                /\ \A d \in 1..10 : drawn[2][d] = Last(drawn[1]))

C7_Witness ==
    /\ entry = "SelectParents"
    /\ pc = "done"
    /\ Len(population) = 2
    /\ Last(drawn[1]) = Last(drawn[2])

\* C8: LoadGraph never crashes; it returns either a graph and no error or an
\* error and no graph, and a returned graph has as many colours as adjacency
\* lists and only node indices of [0, nodeCount) in them.
C8_LoadGraphContract ==
    /\ pc # "panic"
    /\ (entry = "LoadGraph" /\ pc = "done") =>
          /\ (ret.err = "nil") = (Len(ret.graph) = 1)
          /\ \A r \in 1..Len(ret.graph) :
                /\ Len(ret.graph[r].Colors) = Len(ret.graph[r].AdjecencyList)
                /\ \A e \in Entries(ret.graph[r]) :
                      ret.graph[r].AdjecencyList[e[1]][e[2]]
                          \in 0..(NodeCount(ret.graph[r]) - 1)

\* ceil(a / b)
CeilDiv(a, b) == (a + b - 1) \div b

\* C9: the offspring of P parents of length L is made of consecutive blocks
\* of ceil(L/P) positions (the last may be shorter), each copied from one
\* parent.
C9_CrossoverCeilBlocks ==
    (entry = "Crossover" /\ pc = "done") =>
        LET L == Len(parents[1])
            size == CeilDiv(L, Len(parents))
        IN  /\ Len(child) = L
            /\ \A first \in { f \in 0..(L - 1) : f % size = 0 } :
                  \E p \in 1..Len(parents) :
                     \A k \in first..Min(first + size - 1, L - 1) :
                        child[k + 1] = parents[p][k + 1]

\* C10: a generation leaves popSize chromosomes in non-decreasing order of
\* fitness; they are popSize of its 2 * popSize offspring, none of the other
\* offspring scores less than any of them, and population[0] has the
\* generation's bestScore. Nothing of the old population is kept as such.
GenerationReplaced ==
    (pc = "sort" /\ pc' # "sort") =>
        /\ Len(scoredPopulation) = 2 * popSize
        /\ Len(population') = popSize
        /\ \A k \in 1..(popSize - 1) :
              CalculateFitness(g, population'[k]) <= CalculateFitness(g, population'[k + 1])
        /\ \E kept \in SUBSET (1..Len(scoredPopulation)) :
              /\ Cardinality(kept) = popSize
              /\ \E q \in [1..popSize -> kept] :
                    /\ \A a, b \in 1..popSize : a # b => q[a] # q[b]
                    /\ \A k \in 1..popSize :
                          /\ population'[k] = scoredPopulation[q[k]].chromosome
                          /\ CalculateFitness(g, population'[k]) = scoredPopulation[q[k]].score
              /\ \A a \in kept, b \in (1..Len(scoredPopulation)) \ kept :
                    scoredPopulation[a].score <= scoredPopulation[b].score
        /\ Last(bestScores') = CalculateFitness(g, population'[1])
        /\ \A k \in 1..Len(scoredPopulation) :
              Last(bestScores') <= scoredPopulation[k].score

C10_GenerationalReplacement == [][GenerationReplaced]_vars

\* A generation whose bestScore is larger than that of the one before
C10_Witness ==
    /\ Len(bestScores) >= 2
    /\ bestScores[2] > bestScores[1]

====
